---- MODULE Spec2Model ----
(***************************************************************************)
(* Monte Carlo portfolio simulation of financial_analysis:                 *)
(*   portfolio_optimization.py  (functions + __main__)                     *)
(*   Monte_Carlo_simulation.py  (module-level script, lines 1-103)         *)
(* and its per-ticker scoring loops:                                       *)
(*   Altman_Zscore.py, Piotroski_Fscore.py                                 *)
(*                                                                         *)
(* Numbers.  float64 values are carried exactly:                           *)
(*   [k |-> "num", n, d]  the rational n/d (d > 0, lowest terms)           *)
(*   [k |-> "nan"]        NaN                                              *)
(*   [k |-> "inf", n]     +inf (n = 1) or -inf (n = -1)                    *)
(* with IEEE-754 results for x/0 and NaN propagation; rounding and the     *)
(* sign of zero are not modelled.  np.sqrt makes irrational values, so the *)
(* two columns behind a square root (stdev, sharpe) are held as SIGNED     *)
(* SQUARES: the value x is stored as sgn(x)*x^2.  x |-> sgn(x)*x^2 is an   *)
(* order-preserving bijection of the reals that maps 0, NaN and +-inf to   *)
(* themselves and turns products and quotients into products and           *)
(* quotients, so comparisons, zero tests and divisions are exact.          *)
(*                                                                         *)
(* Units.  Daily mean returns are integers in units of u = 0.02/252, so    *)
(* the default risk-free rate 0.02 is TradingDays units.                   *)
(***************************************************************************)
EXTENDS Integers, Sequences, FiniteSets, TLC

\* ---------------------------------------------------------------- bounds
MaxK == 2          \* largest num_portfolios explored
MaxStocks == 3     \* largest requested num_stocks

\* ------------------------------------------------------ program constants
TradingDays == 252
Seed == 42

\* sp500_tickers: the asset universe the tickers are chosen from
Universe == {"AAA", "BBB"}

Programs == {"portfolio_optimization", "Monte_Carlo_simulation"}

\* risk_free_rate values explored: 0 and the default 0.02 (= TradingDays units)
RiskFreeRates == {0, TradingDays}

\* daily mean returns and covariances the return estimator may hand over
\* np.random.random() values explored, in halves: 0.0 and 0.5, both in [0, 1)
RawValues == {0, 1}

MeanValues == {0, 1}
CovValues == {0, 1}

\* ---------------------------------------------------------------- floats
Abs(x) == IF x < 0 THEN -x ELSE x

Sign(x) == IF x < 0 THEN -1 ELSE IF x = 0 THEN 0 ELSE 1

RECURSIVE GCD(_, _)
GCD(a, b) == IF b = 0 THEN a ELSE GCD(b, a % b)

NaN == [k |-> "nan", n |-> 0, d |-> 0]

Inf(s) == [k |-> "inf", n |-> s, d |-> 0]

\* n/d in lowest terms, d > 0
Rat(n, d) ==
    LET g == GCD(Abs(n), d)
    IN  [k |-> "num", n |-> n \div g, d |-> d \div g]

FromInt(x) == Rat(x, 1)

IsNaN(x) == x.k = "nan"

IsNum(x) == x.k = "num"

IsZero(x) == x.k = "num" /\ x.n = 0

FAdd(a, b) ==
    IF IsNaN(a) \/ IsNaN(b) THEN NaN
    ELSE IF a.k = "inf" /\ b.k = "inf" THEN (IF a.n = b.n THEN a ELSE NaN)
    ELSE IF a.k = "inf" THEN a
    ELSE IF b.k = "inf" THEN b
    ELSE Rat(a.n * b.d + b.n * a.d, a.d * b.d)

FNeg(a) == IF IsNaN(a) THEN NaN ELSE [a EXCEPT !.n = -a.n]

FSub(a, b) == FAdd(a, FNeg(b))

FMul(a, b) ==
    IF IsNaN(a) \/ IsNaN(b) THEN NaN
    ELSE IF a.k = "inf" \/ b.k = "inf"
         THEN (IF a.n = 0 \/ b.n = 0 THEN NaN ELSE Inf(Sign(a.n) * Sign(b.n)))
    ELSE Rat(a.n * b.n, a.d * b.d)

\* IEEE-754 division as numpy performs it (a RuntimeWarning, never an exception)
FDiv(a, b) ==
    IF IsNaN(a) \/ IsNaN(b) THEN NaN
    ELSE IF a.k = "inf" THEN (IF b.k = "inf" THEN NaN
                              ELSE Inf(a.n * (IF b.n < 0 THEN -1 ELSE 1)))
    ELSE IF b.k = "inf" THEN FromInt(0)
    ELSE IF b.n = 0 THEN (IF a.n = 0 THEN NaN ELSE Inf(Sign(a.n)))
    ELSE Rat(a.n * b.d * Sign(b.n), a.d * Abs(b.n))

\* a < b for non-NaN values
FLess(a, b) ==
    IF a.k = "inf" /\ a.n = 1 THEN FALSE
    ELSE IF b.k = "inf" /\ b.n = -1 THEN FALSE
    ELSE IF a.k = "inf" THEN TRUE
    ELSE IF b.k = "inf" THEN TRUE
    ELSE a.n * b.d < b.n * a.d

\* the signed square sgn(x)*x^2 of a plain value x
Surd(x) == FMul(x, IF IsNaN(x) THEN NaN ELSE [x EXCEPT !.n = Abs(x.n)])

\* np.sqrt(x), as a signed square: the square of sqrt(x) is x; NaN below zero
Sqrt(x) == IF IsNaN(x) THEN NaN ELSE IF x.n < 0 THEN NaN ELSE x

\* ----------------------------------------------------- numpy / pandas
RECURSIVE ArraySum(_)
\* np.sum / np.dot over an ndarray: NaN propagates; the empty sum is 0
ArraySum(a) == IF a = <<>> THEN FromInt(0) ELSE FAdd(a[1], ArraySum(Tail(a)))

RECURSIVE SeriesSum(_)
\* np.sum(Series) dispatches to Series.sum(), which skips NaN (skipna=True)
SeriesSum(a) ==
    IF a = <<>> THEN FromInt(0)
    ELSE IF IsNaN(a[1]) THEN SeriesSum(Tail(a))
    ELSE FAdd(a[1], SeriesSum(Tail(a)))

\* np.random.random(num_stocks): component j is raw[j] halves
RawVector(raw) == [j \in 1..Len(raw) |-> Rat(raw[j], Cardinality(RawValues))]

\* weights /= np.sum(weights)
Normalize(w) == [j \in 1..Len(w) |-> FDiv(w[j], ArraySum(w))]

\* np.sum(mean_daily_returns * weights) * 252
PortfolioReturn(mean, w) ==
    FMul(SeriesSum([j \in 1..Len(w) |-> FMul(mean[j], w[j])]), FromInt(TradingDays))

\* np.dot(cov_matrix, weights)
MatVec(cov, w) ==
    [a \in 1..Len(w) |-> ArraySum([b \in 1..Len(w) |-> FMul(cov[a][b], w[b])])]

\* np.sqrt(np.dot(weights.T, np.dot(cov_matrix, weights))) * np.sqrt(252)
PortfolioStdDev(cov, w) ==
    LET cw == MatVec(cov, w)
    IN  FMul(Sqrt(ArraySum([a \in 1..Len(w) |-> FMul(w[a], cw[a])])),
             Sqrt(FromInt(TradingDays)))

\* simulate_portfolios: (portfolio_return - risk_free_rate) / portfolio_std_dev
SharpeRatio(ret, std, rf) == FDiv(Surd(FSub(ret, rf)), std)

\* Monte_Carlo_simulation.py: results[0, i] / results[1, i]
ScriptSharpeRatio(ret, std, rf) == FDiv(Surd(ret), std)

\* one column of the results array
Sample(prog, mean, cov, rf, raw) ==
    LET w   == Normalize(RawVector(raw))
        ret == PortfolioReturn(mean, w)
        std == PortfolioStdDev(cov, w)
    IN  [ret |-> ret, stdev |-> std,
         sharpe |-> IF prog = "portfolio_optimization"
                    THEN SharpeRatio(ret, std, rf)
                    ELSE ScriptSharpeRatio(ret, std, rf),
         weights |-> w]

\* a column of np.zeros((3 + num_stocks, num_portfolios))
ZeroSample(n) ==
    [ret |-> FromInt(0), stdev |-> FromInt(0), sharpe |-> FromInt(0),
     weights |-> [j \in 1..n |-> FromInt(0)]]

Zeros(n, K) == [c \in 1..K |-> ZeroSample(n)]

\* the stores with the column index one too low: numpy wraps -1 to the last column
StoreResultsOffByOne(res, i, sample) ==
    [res EXCEPT ![IF i = 0 THEN Len(res) ELSE i] = sample]

\* results[0, i], results[1, i], results[2, i], results[3:, i] = ...  (i is 0-based)
StoreResults(res, i, sample) == [res EXCEPT ![i + 1] = sample]

\* pandas Series.idxmax(): first position of the maximum among the non-NaN
\* values; -1 stands for an empty or all-NaN column, where idxmax() raises
\* ValueError or (older pandas) returns NaN, on which iloc raises TypeError
IdxMax(col) ==
    LET ok == {p \in 1..Len(col) : ~IsNaN(col[p])}
        best == {p \in ok : \A q \in ok : ~FLess(col[p], col[q])}
    IN  IF ok = {} THEN -1
        ELSE (CHOOSE p \in best : \A q \in best : p <= q) - 1

\* pandas Series.idxmin(), likewise
IdxMin(col) ==
    LET ok == {p \in 1..Len(col) : ~IsNaN(col[p])}
        best == {p \in ok : \A q \in ok : ~FLess(col[q], col[p])}
    IN  IF ok = {} THEN -1
        ELSE (CHOOSE p \in best : \A q \in best : p <= q) - 1

\* the stdev column whatever the column asked for
StdevColumn(rows, field) == [p \in 1..Len(rows) |-> rows[p].stdev]

\* results_frame['sharpe'], results_frame['stdev']
Column(rows, field) == [p \in 1..Len(rows) |-> rows[p][field]]

\* numbers of rows of returns that hold a return (price rows less one)
Observations == {0, 1, 2}

\* lists of N tickers drawn with replacement (np.random.choice(..., replace=True))
ChoicesWithReplacement(N) == [1..N -> Universe]

\* duplicate-free lists of N tickers (np.random.choice(..., replace=False))
Choices(N) ==
    {s \in [1..N -> Universe] : \A a, b \in 1..N : a # b => s[a] # s[b]}

\* symmetric covariance matrices of size n over CovValues (Cauchy-Schwarz holds)
CovMatrices(n) ==
    {c \in [1..n -> [1..n -> CovValues]] :
        \A a, b \in 1..n : /\ c[a][b] = c[b][a]
                           /\ c[a][b] * c[a][b] <= c[a][a] * c[b][b]}

\* returns.cov(): NaN wherever one of the two columns holds no return
CovOf(c, cols, nans) ==
    [a \in 1..Len(cols) |->
        [b \in 1..Len(cols) |->
            IF cols[a] \in nans \/ cols[b] \in nans THEN NaN ELSE FromInt(c[a][b])]]

\* returns.mean(): NaN for a column that holds no return
MeanOf(m, cols, nans) ==
    [a \in 1..Len(cols) |-> IF cols[a] \in nans THEN NaN ELSE FromInt(m[a])]

\* ------------------------------------------------- scoring (Altman, Piotroski)
ScoringPrograms == {"Altman_Zscore", "Piotroski_Fscore"}

\* the row labels of the three statements and of stock.info that the scores read
AllRows ==
    {"Total Current Assets", "Total Current Liabilities", "Current Assets",
     "Current Liabilities", "Total Assets", "Retained Earnings", "EBIT",
     "marketCap", "Total Liabilities Net Minority Interest", "Total Revenue",
     "Net Income", "EBITDA", "Free Cash Flow", "Long Term Debt", "Share Issued"}

\* latest-year figure of each row
BaseFigures ==
    [r \in AllRows |->
        CASE r = "Total Assets" -> 8
          [] r \in {"Total Current Assets", "Current Assets"} -> 5
          [] r \in {"Total Current Liabilities", "Current Liabilities"} -> 3
          [] r = "Total Liabilities Net Minority Interest" -> 4
          [] r = "marketCap" -> 6
          [] OTHER -> 2]

\* what yfinance may hold for one ticker: years fiscal-year columns (years[0]
\* the latest), the row labels present, and the figures, which change by
\* trend per year going back
Statements ==
    {[years |-> y, rows |-> r, trend |-> t] :
        y \in {0, 1, 4},
        r \in {AllRows, AllRows \ {"EBIT"},
               AllRows \ {"Long Term Debt", "EBITDA"}, AllRows \ {"Net Income"}},
        t \in {-1, 1}}

\* frame[years[y]][row], frame.loc[row, years[y]]
Figure(st, row, y) == FromInt(BaseFigures[row] + st.trend * y)

\* the outcome of a call: a returned value or a raised exception
Return(v) == [kind |-> "return", value |-> v]

Raise(e) == [kind |-> "raise", value |-> e]

\* no exception
NoFailure == [class |-> "none", arg |-> ""]

\* the first lookup <<row, y>> of a list that raises, and with what:
\* years[y] raises IndexError past the last column, a missing label KeyError
FirstFailure(st, lookups) ==
    LET bad == {p \in 1..Len(lookups) :
                    lookups[p][2] >= st.years \/ lookups[p][1] \notin st.rows}
    IN  IF bad = {} THEN NoFailure
        ELSE LET p == CHOOSE q \in bad : \A o \in bad : q <= o
             IN  IF lookups[p][2] >= st.years
                 THEN [class |-> "IndexError", arg |-> "index out of bounds"]
                 ELSE [class |-> "KeyError", arg |-> lookups[p][1]]

\* return [balance_sheet, income_statement, cash_flow, years]
fetch_financial_data(st) == <<st, st, st, st.years>>

\* 1 if a > b else 0
Score(a, b) == IF FLess(b, a) THEN 1 ELSE 0


\* balance_sheet, income_statement, cash_flow, years, stock = data
AltmanTargets == <<"balance_sheet", "income_statement", "cash_flow", "years", "stock">>

\* the weighted sum of the five ratios, whatever the statement holds
ZScore(st) ==
    LET rows == IF {"Total Current Assets", "Total Current Liabilities"} \subseteq st.rows
                THEN <<"Total Current Assets", "Total Current Liabilities">>
                ELSE <<"Current Assets", "Current Liabilities">>
        working_capital == FSub(Figure(st, rows[1], 0), Figure(st, rows[2], 0))
        total_assets == Figure(st, "Total Assets", 0)
        x1 == FDiv(working_capital, total_assets)
        x2 == FDiv(Figure(st, "Retained Earnings", 0), total_assets)
        x3 == FDiv(Figure(st, "EBIT", 0), total_assets)
        x4 == FDiv(Figure(st, "marketCap", 0),
                   Figure(st, "Total Liabilities Net Minority Interest", 0))
        x5 == FDiv(Figure(st, "Total Revenue", 0), total_assets)
    IN  FAdd(FAdd(FAdd(FAdd(FMul(Rat(12, 10), x1), FMul(Rat(14, 10), x2)),
                       FMul(Rat(33, 10), x3)),
                  FMul(Rat(6, 10), x4)),
             FMul(Rat(10, 10), x5))

\* calculate_altman_z_score of Altman_Zscore.py
calculate_altman_z_score(st) ==
    LET data == fetch_financial_data(st)
        first == FirstFailure(st, <<<<"Total Current Assets", 0>>,
                                    <<"Total Current Liabilities", 0>>>>)
        second == FirstFailure(st, <<<<"Current Assets", 0>>,
                                     <<"Current Liabilities", 0>>>>)
        rest == FirstFailure(st, <<<<"Total Assets", 0>>, <<"Retained Earnings", 0>>,
                                   <<"EBIT", 0>>, <<"marketCap", 0>>,
                                   <<"Total Liabilities Net Minority Interest", 0>>,
                                   <<"Total Revenue", 0>>>>)
    IN  IF Len(data) < Len(AltmanTargets)
        THEN Raise([class |-> "ValueError", arg |-> "not enough values to unpack"])
        ELSE IF Len(data) > Len(AltmanTargets)
        THEN Raise([class |-> "ValueError", arg |-> "too many values to unpack"])
        ELSE IF first.class = "IndexError" THEN Raise(first)
        ELSE IF first.class # "none" /\ second.class # "none" THEN Raise(second)
        ELSE IF rest.class # "none" THEN Raise(rest)
        ELSE Return(ZScore(st))

\* calculate_profitability
calculate_profitability(st) ==
    LET failure == FirstFailure(st, <<<<"Net Income", 0>>, <<"Net Income", 1>>,
                                      <<"Free Cash Flow", 0>>, <<"Total Assets", 0>>,
                                      <<"Total Assets", 1>>>>)
        net_income == Figure(st, "Net Income", 0)
        net_income_previous_year == Figure(st, "Net Income", 1)
        free_cash_flow == Figure(st, "Free Cash Flow", 0)
        total_assets == Figure(st, "Total Assets", 0)
        roa == FDiv(net_income, total_assets)
        roa_previous_year == FDiv(net_income_previous_year, Figure(st, "Total Assets", 1))
        accruals == FDiv(free_cash_flow, total_assets)
    IN  IF failure.class # "none" THEN Raise(failure)
        ELSE Return(Score(net_income, net_income_previous_year)
                    + Score(free_cash_flow, FromInt(0))
                    + Score(roa, roa_previous_year)
                    + Score(accruals, roa))

\* calculate_leverage
calculate_leverage(st) ==
    LET debt == FirstFailure(st, <<<<"Long Term Debt", 0>>, <<"Long Term Debt", 1>>>>)
        failure == FirstFailure(st, <<<<"Current Assets", 0>>, <<"Current Liabilities", 0>>,
                                      <<"Current Assets", 1>>, <<"Current Liabilities", 1>>,
                                      <<"Share Issued", 0>>, <<"Share Issued", 1>>>>)
        debt_score == IF debt.class = "none"
                      THEN Score(Figure(st, "Long Term Debt", 1), Figure(st, "Long Term Debt", 0))
                      ELSE 1
        current_ratio == FDiv(Figure(st, "Current Assets", 0),
                              Figure(st, "Current Liabilities", 0))
        current_ratio_previous_year == FDiv(Figure(st, "Current Assets", 1),
                                            Figure(st, "Current Liabilities", 1))
        dilution_score == 1 - Score(Figure(st, "Share Issued", 0),
                                    Figure(st, "Share Issued", 1))
    IN  IF debt.class = "IndexError" THEN Raise(debt)
        ELSE IF failure.class # "none" THEN Raise(failure)
        ELSE Return(debt_score + Score(current_ratio, current_ratio_previous_year)
                    + dilution_score)

\* calculate_operational_efficiency
calculate_operational_efficiency(st) ==
    LET first == FirstFailure(st, <<<<"EBITDA", 0>>, <<"EBITDA", 1>>>>)
        second == FirstFailure(st, <<<<"Net Income", 0>>, <<"Net Income", 1>>>>)
        failure == FirstFailure(st, <<<<"Total Assets", 0>>, <<"Total Assets", 1>>,
                                      <<"Total Revenue", 0>>, <<"Total Assets", 2>>,
                                      <<"Total Revenue", 1>>>>)
        row == IF first.class = "none" THEN "EBITDA" ELSE "Net Income"
        total_assets_previous_year == Figure(st, "Total Assets", 1)
        average_assets == FDiv(FAdd(Figure(st, "Total Assets", 0),
                                    total_assets_previous_year), FromInt(2))
        average_assets_previous_year ==
            FDiv(FAdd(total_assets_previous_year, Figure(st, "Total Assets", 2)),
                 FromInt(2))
        asset_turnover == FDiv(Figure(st, "Total Revenue", 0), average_assets)
        asset_turnover_previous_year ==
            FDiv(Figure(st, "Total Revenue", 1), average_assets_previous_year)
    IN  IF first.class = "IndexError" THEN Raise(first)
        ELSE IF first.class # "none" /\ second.class # "none" THEN Raise(second)
        ELSE IF failure.class # "none" THEN Raise(failure)
        ELSE Return(Score(Figure(st, row, 0), Figure(st, row, 1))
                    + Score(asset_turnover, asset_turnover_previous_year))

\* calculate_piotroski_score: the three part scores in turn, the first
\* exception ending the call
calculate_piotroski_score(st) ==
    LET profitability_score == calculate_profitability(st)
        leverage_score == calculate_leverage(st)
        efficiency_score == calculate_operational_efficiency(st)
    IN  IF profitability_score.kind = "raise" THEN profitability_score
        ELSE IF leverage_score.kind = "raise" THEN leverage_score
        ELSE IF efficiency_score.kind = "raise" THEN efficiency_score
        ELSE Return(profitability_score.value + leverage_score.value
                    + efficiency_score.value)

\* the scoring call of each loop
CalculateScore(prog, st) ==
    IF prog = "Altman_Zscore" THEN calculate_altman_z_score(st)
    ELSE calculate_piotroski_score(st)

\* the exception classes the scoring raises; all derive from Exception
ExceptionClasses == {"ValueError", "KeyError", "IndexError"}

\* an  except KeyError  clause in place of  except Exception
CaughtKeyErrorOnly(e) == e.class = "KeyError"

\* except Exception as e
Caught(e) == e.class \in ExceptionClasses

\* d[key] = value on a dict held as a function
SetItem(d, key, value) ==
    [x \in DOMAIN d \cup {key} |-> IF x = key THEN value ELSE d[x]]

\* duplicate-free ticker lists (Symbol column of the index table)
TickerLists ==
    {s \in UNION {[1..N -> Universe] : N \in 0..Cardinality(Universe)} :
        \A a, b \in 1..Len(s) : a # b => s[a] # s[b]}


\* ------------------------------------------------------------------ state
VARIABLES
    program,            \* which of the two programs runs
    pc,                 \* position in the program
    rng,                \* global np.random generator: [seed, pos]; pos counts the
                        \* values consumed since np.random.seed
    selected_tickers,   \* selected_tickers / stocks: the requested symbols
    data,               \* columns (symbols) of the price matrix
    nan_columns,        \* the columns of the price matrix that hold only NaN
    observations,       \* number of rows of returns that hold a return
    mean_daily_returns, \* returns.mean()
    cov_matrix,         \* returns.cov()
    risk_free_rate,     \* risk_free_rate (not read by Monte_Carlo_simulation.py)
    num_portfolios,     \* K
    num_stocks,         \* width of the weight vector
    results,            \* the results array of the running simulation, by column
    i,                  \* loop index of the simulation loop (0-based)
    draws,              \* history: the sample of each draw of the running call,
                        \* in draw order
    writes,             \* history: number of stores into each column
    tables,             \* history: the array returned by each completed simulation
    states,             \* history: generator state before each draw, per call
    results_frame,      \* [columns, rows] once built
    max_sharpe_port,    \* [idx, row] once selected
    min_vol_port,       \* [idx, row] once selected
    error,              \* "none" or the exception that ended the run
    tickers,            \* the ticker list a scoring loop iterates over
    market,             \* what yfinance holds for each ticker
    errors,             \* errors: ticker -> the exception its scoring raised
    processed,          \* history: the tickers the loop body has been entered for
    position            \* the loop iterator: index of the next list element

vars == <<program, pc, rng, selected_tickers, data, nan_columns, observations, mean_daily_returns, cov_matrix,
          risk_free_rate, num_portfolios, num_stocks, results, i, draws, writes,
          tables, states, results_frame, max_sharpe_port, min_vol_port, error,
          tickers, market, errors, processed, position>>

\* the variables only the scoring loops (Altman, Piotroski) write
scoring_vars == <<tickers, market, errors, processed, position>>

NoFrame == [columns |-> <<>>, rows |-> <<>>]

NoPort == [idx |-> -1, row |-> ZeroSample(0)]

Init ==
    /\ program \in Programs
    /\ pc = "select"
    /\ rng = [seed |-> -1, pos |-> 0]
    /\ selected_tickers = <<>>
    /\ data = <<>>
    /\ nan_columns = {}
    /\ observations = 0
    /\ mean_daily_returns = <<>>
    /\ cov_matrix = <<>>
    /\ risk_free_rate \in {FromInt(r) : r \in RiskFreeRates}
    /\ num_portfolios \in 0..MaxK
    /\ num_stocks = 0
    /\ results = <<>>
    /\ i = 0
    /\ draws = <<>>
    /\ writes = <<>>
    /\ tables = <<>>
    /\ states = <<>>
    /\ results_frame = NoFrame
    /\ max_sharpe_port = NoPort
    /\ min_vol_port = NoPort
    /\ error = "none"
    /\ tickers = <<>>
    /\ market = <<>>
    /\ errors = <<>>
    /\ processed = <<>>
    /\ position = 0

\* num_stocks = int(input(...)) (the script fixes it); np.random.seed(42);
\* np.random.choice(sp500, num_stocks, replace=False).tolist()
\* choice permutes the population: one generator step per universe member
SelectTickers ==
    /\ pc = "select"
    /\ \E N \in 1..MaxStocks :
         /\ num_stocks' = N
         /\ IF N > Cardinality(Universe)
            THEN /\ error' = "ValueError: Cannot take a larger sample than population"
                 /\ pc' = "failed"
                 /\ rng' = [seed |-> Seed, pos |-> 0]
                 /\ UNCHANGED selected_tickers
            ELSE /\ \E s \in Choices(N) : selected_tickers' = s
                 /\ rng' = [seed |-> Seed, pos |-> Cardinality(Universe)]
                 /\ pc' = "fetch"
                 /\ error' = error
    /\ UNCHANGED <<program, data, nan_columns, observations, mean_daily_returns, cov_matrix, risk_free_rate,
                   num_portfolios, results, i, draws, writes, tables, states,
                   results_frame, max_sharpe_port, min_vol_port>>
    /\ UNCHANGED scoring_vars

\* fetch_price_data: a symbol whose download raises gets no column, and
\* dropna(axis=1) drops a column with missing values.  The script's single
\* yf.download(stocks) keeps one column per symbol, all NaN for a failed one.
FetchPriceData ==
    /\ pc = "fetch"
    /\ \E good \in SUBSET {selected_tickers[p] : p \in 1..Len(selected_tickers)} :
         IF program = "portfolio_optimization"
         THEN /\ data' = SelectSeq(selected_tickers, LAMBDA t : t \in good)
              /\ nan_columns' = {}
         ELSE /\ data' = selected_tickers
              /\ nan_columns' = {selected_tickers[p] : p \in 1..Len(selected_tickers)}
                                    \ good
    /\ pc' = "estimate"
    /\ UNCHANGED <<program, rng, selected_tickers, observations, mean_daily_returns,
                   cov_matrix, risk_free_rate, num_portfolios, num_stocks, results,
                   i, draws, writes, tables, states, results_frame, max_sharpe_port,
                   min_vol_port, error>>
    /\ UNCHANGED scoring_vars

\* returns = data.pct_change(); returns.mean(); returns.cov()
\* pct_change leaves the first row NaN: a price matrix of r rows holds r - 1
\* returns.  mean() of no return is NaN; cov() of fewer than two is NaN.
EstimateReturns ==
    /\ pc = "estimate"
    /\ \E obs \in Observations :
         LET cols == {data[p] : p \in 1..Len(data)}
         IN  /\ observations' = obs
             /\ \E m \in [1..Len(data) -> MeanValues] :
                  mean_daily_returns'
                      = MeanOf(m, data, IF obs < 1 THEN cols ELSE nan_columns)
             /\ \E c \in CovMatrices(Len(data)) :
                  cov_matrix'
                      = CovOf(c, data, IF obs < 2 THEN cols ELSE nan_columns)
    /\ pc' = "simulate"
    /\ UNCHANGED <<program, rng, selected_tickers, data, nan_columns, risk_free_rate,
                   num_portfolios, num_stocks, results, i, draws, writes, tables,
                   states, results_frame, max_sharpe_port, min_vol_port, error>>
    /\ UNCHANGED scoring_vars

\* entry of simulate_portfolios (num_stocks = len(mean_daily_returns)), or
\* results = np.zeros(...) of the script (num_stocks stays the requested count)
SimulateStart ==
    /\ pc = "simulate"
    /\ num_stocks' = IF program = "portfolio_optimization"
                     THEN Len(mean_daily_returns) ELSE num_stocks
    /\ results' = Zeros(num_stocks', num_portfolios)
    /\ writes' = [c \in 1..num_portfolios |-> 0]
    /\ draws' = <<>>
    /\ states' = Append(states, <<>>)
    /\ i' = 0
    /\ pc' = "loop"
    /\ UNCHANGED <<program, rng, selected_tickers, data, nan_columns, observations, mean_daily_returns,
                   cov_matrix, risk_free_rate, num_portfolios, tables,
                   results_frame, max_sharpe_port, min_vol_port, error>>
    /\ UNCHANGED scoring_vars

\* one iteration of  for i in range(num_portfolios)
Draw ==
    /\ pc = "loop"
    /\ i < num_portfolios
    /\ \E raw \in [1..num_stocks -> RawValues] :
         /\ rng' = [rng EXCEPT !.pos = @ + num_stocks]
         /\ states' = [states EXCEPT ![Len(states)] = Append(@, rng)]
         /\ LET sample == Sample(program, mean_daily_returns, cov_matrix,
                                 risk_free_rate, raw)
            IN  /\ results' = StoreResults(results, i, sample)
                /\ draws' = Append(draws, sample)
         /\ writes' = [writes EXCEPT ![i + 1] = @ + 1]
         /\ i' = i + 1
    /\ UNCHANGED <<pc, error>>
    /\ UNCHANGED <<program, selected_tickers, data, nan_columns, observations, mean_daily_returns, cov_matrix,
                   risk_free_rate, num_portfolios, num_stocks, tables,
                   results_frame, max_sharpe_port, min_vol_port>>
    /\ UNCHANGED scoring_vars

\* return results (the loop has ended)
SimulateReturn ==
    /\ pc = "loop"
    /\ i >= num_portfolios
    /\ tables' = Append(tables, results)
    /\ pc' = "returned"
    /\ UNCHANGED <<program, rng, selected_tickers, data, nan_columns, observations, mean_daily_returns,
                   cov_matrix, risk_free_rate, num_portfolios, num_stocks, results,
                   i, draws, writes, states, results_frame, max_sharpe_port,
                   min_vol_port, error>>
    /\ UNCHANGED scoring_vars

\* a caller invokes simulate_portfolios a second time with the same arguments
SimulateAgain ==
    /\ pc = "returned"
    /\ program = "portfolio_optimization"
    /\ Len(tables) = 1
    /\ pc' = "simulate"
    /\ UNCHANGED <<program, rng, selected_tickers, data, nan_columns, observations, mean_daily_returns,
                   cov_matrix, risk_free_rate, num_portfolios, num_stocks, results,
                   i, draws, writes, tables, states, results_frame,
                   max_sharpe_port, min_vol_port, error>>
    /\ UNCHANGED scoring_vars

\* columns = ['ret', 'stdev', 'sharpe'] + stocks; pd.DataFrame(results.T, columns)
ResultsToDataframe ==
    /\ pc = "returned"
    /\ Len(tables) = 1
    /\ IF Len(selected_tickers) # num_stocks
       THEN /\ error' = "ValueError: Shape of passed values"
            /\ pc' = "failed"
            /\ UNCHANGED results_frame
       ELSE /\ results_frame' = [columns |-> <<"ret", "stdev", "sharpe">> \o selected_tickers,
                                 rows |-> results]
            /\ pc' = "identify"
            /\ UNCHANGED error
    /\ UNCHANGED <<program, rng, selected_tickers, data, nan_columns, observations, mean_daily_returns,
                   cov_matrix, risk_free_rate, num_portfolios, num_stocks, results,
                   i, draws, writes, tables, states, max_sharpe_port, min_vol_port>>
    /\ UNCHANGED scoring_vars

\* identify_optimal_portfolios: iloc[idxmax()] first, then iloc[idxmin()]
IdentifyOptimalPortfolios ==
    /\ pc = "identify"
    /\ LET rows == results_frame.rows
           a == IdxMax(Column(rows, "sharpe"))
           b == IdxMin(Column(rows, "stdev"))
       IN  IF a < 0
           THEN /\ error' = "iloc[idxmax()] raises: empty or all-NaN column"
                /\ pc' = "failed"
                /\ UNCHANGED <<max_sharpe_port, min_vol_port>>
           ELSE IF b < 0
           THEN /\ error' = "iloc[idxmin()] raises: empty or all-NaN column"
                /\ pc' = "failed"
                /\ UNCHANGED <<max_sharpe_port, min_vol_port>>
           ELSE /\ max_sharpe_port' = [idx |-> a, row |-> rows[a + 1]]
                /\ min_vol_port' = [idx |-> b, row |-> rows[b + 1]]
                /\ pc' = "done"
                /\ UNCHANGED error
    /\ UNCHANGED <<program, rng, selected_tickers, data, nan_columns, observations, mean_daily_returns,
                   cov_matrix, risk_free_rate, num_portfolios, num_stocks, results,
                   i, draws, writes, tables, states, results_frame>>
    /\ UNCHANGED scoring_vars

Next ==
    \/ SelectTickers
    \/ FetchPriceData
    \/ EstimateReturns
    \/ SimulateStart
    \/ Draw
    \/ SimulateReturn
    \/ ResultsToDataframe
    \/ IdentifyOptimalPortfolios

\* __main__ as written: one simulation per run
Spec == Init /\ [][Next]_vars

NextRepeat ==
    \/ Next
    \/ SimulateAgain

\* a run in which simulate_portfolios may be called a second time
SpecRepeat == Init /\ [][NextRepeat]_vars

\* the variables of the portfolio programs that the scoring programs lack
portfolio_vars ==
    <<rng, selected_tickers, data, nan_columns, observations, mean_daily_returns,
      cov_matrix, risk_free_rate, num_portfolios, num_stocks, i, draws, writes,
      tables, states, results_frame, max_sharpe_port, min_vol_port>>

\* results = {}; errors = {}; the ticker list is fetched, the loop not entered
InitScoring ==
    /\ program \in ScoringPrograms
    /\ pc = "score"
    /\ tickers \in TickerLists
    /\ market \in [Universe -> Statements]
    /\ results = <<>>
    /\ errors = <<>>
    /\ processed = <<>>
    /\ position = 1
    /\ error = "none"
    /\ rng = [seed |-> -1, pos |-> 0]
    /\ selected_tickers = <<>>
    /\ data = <<>>
    /\ nan_columns = {}
    /\ observations = 0
    /\ mean_daily_returns = <<>>
    /\ cov_matrix = <<>>
    /\ risk_free_rate = FromInt(0)
    /\ num_portfolios = 0
    /\ num_stocks = 0
    /\ i = 0
    /\ draws = <<>>
    /\ writes = <<>>
    /\ tables = <<>>
    /\ states = <<>>
    /\ results_frame = NoFrame
    /\ max_sharpe_port = NoPort
    /\ min_vol_port = NoPort

\* one iteration of  for ticker in tickers: try: ... except Exception as e: ...
ScoreTicker ==
    /\ pc = "score"
    /\ position <= Len(tickers)
    /\ LET ticker == tickers[position]
           outcome == CalculateScore(program, market[ticker])
       IN  /\ processed' = Append(processed, ticker)
           /\ IF outcome.kind = "return"
              THEN /\ results' = SetItem(results, ticker, outcome.value)
                   /\ position' = position + 1
                   /\ UNCHANGED <<errors, pc, error>>
              ELSE IF Caught(outcome.value)
              THEN /\ errors' = SetItem(errors, ticker, outcome.value)
                   /\ position' = position + 1
                   /\ UNCHANGED <<results, pc, error>>
              ELSE /\ pc' = "failed"
                   /\ error' = outcome.value.class
                   /\ UNCHANGED <<results, errors, position>>
    /\ UNCHANGED <<program, tickers, market>>
    /\ UNCHANGED portfolio_vars

\* the list is exhausted: the loop ends
ScoreLoopEnd ==
    /\ pc = "score"
    /\ position > Len(tickers)
    /\ pc' = "scored"
    /\ UNCHANGED <<program, results, error>>
    /\ UNCHANGED scoring_vars
    /\ UNCHANGED portfolio_vars

NextScoring ==
    \/ ScoreTicker
    \/ ScoreLoopEnd

\* the per-ticker scoring loop of Altman_Zscore.py and of Piotroski_Fscore.py
SpecScoring == InitScoring /\ [][NextScoring]_vars


\* ------------------------------------------------------------- properties
\* the columns of the running simulation that a draw has been stored into
Stored == 1..i

\* a sample whose Sharpe ratio is undefined: a zero-volatility draw, or NaN
Undefined(e) == IsZero(e.stdev) \/ IsNaN(e.stdev) \/ IsNaN(e.sharpe)

\* identify_optimal_portfolios has been called on the frame and has ended
SelectorRan == results_frame # NoFrame /\ pc \in {"done", "failed"}

ShapeErrors == {"ValueError: Shape of passed values"}

\* C1: every stored sample over at least one asset has weights that are each
\* non-negative and that sum to 1, whatever the raw draw (all-zero included).
C1_WeightsOnSimplex ==
    \A c \in Stored :
        num_stocks >= 1 =>
            LET w == results[c].weights
            IN  /\ \A j \in 1..Len(w) : IsNum(w[j]) /\ w[j].n >= 0
                /\ ArraySum(w) = FromInt(1)

\* C2: in both programs every stored sample's Sharpe ratio is
\* (stored return - risk-free rate) / stored volatility (stated for the samples
\* whose volatility is a non-zero number, where the quotient is an ordinary one).
C2_SharpeFormula ==
    \A c \in Stored :
        (IsNum(results[c].stdev) /\ ~IsZero(results[c].stdev)) =>
            results[c].sharpe
                = FDiv(Surd(FSub(results[c].ret, risk_free_rate)), results[c].stdev)

\* C3: the simulator returns exactly K columns, column c holding the sample of
\* the c-th draw, none left at its zero-initialised value, each stored exactly
\* once; while the loop runs, exactly the first i columns have been stored.
C3_ExactlyKInDrawOrder ==
    /\ pc = "loop" =>
          /\ Len(results) = num_portfolios
          /\ \A c \in 1..num_portfolios : writes[c] = (IF c <= i THEN 1 ELSE 0)
    /\ pc = "returned" =>
          LET t == tables[Len(tables)]
          IN  /\ Len(t) = num_portfolios
              /\ Len(draws) = num_portfolios
              /\ \A c \in 1..num_portfolios :
                    /\ t[c] = draws[c]
                    /\ t[c] # ZeroSample(num_stocks)
                    /\ writes[c] = 1

\* a simulation over two assets has returned two samples of different draws
C3_Witness ==
    /\ pc = "returned"
    /\ num_portfolios >= 2
    /\ num_stocks = 2
    /\ draws[1] # draws[2]
    /\ tables[Len(tables)][1] # tables[Len(tables)][2]

\* C4: a zero-volatility draw does not abort the run, and its Sharpe ratio is
\* stored as NaN; the simulation still returns all K samples.
C4_ZeroVolatilityIsNaN ==
    /\ \A c \in Stored : IsZero(results[c].stdev) => IsNaN(results[c].sharpe)
    /\ (pc = "loop" /\ \E c \in Stored : IsZero(results[c].stdev)) => error = "none"

\* C5: on a non-empty table the max-Sharpe output is the first sample whose
\* Sharpe ratio is maximal among the samples with a defined Sharpe ratio, and
\* never a sample whose Sharpe ratio is undefined.
C5_MaxSharpeFirstDefinedMax ==
    (pc = "done" /\ Len(results_frame.rows) >= 1) =>
        LET rows == results_frame.rows
            def == {p \in 1..Len(rows) : ~Undefined(rows[p])}
            m == max_sharpe_port.idx + 1
        IN  /\ m \in def
            /\ max_sharpe_port.row = rows[m]
            /\ \A q \in def : ~FLess(rows[m].sharpe, rows[q].sharpe)
            /\ \A q \in def : q < m => FLess(rows[q].sharpe, rows[m].sharpe)

\* C6: on a non-empty table the min-volatility output is the first sample with
\* the minimal volatility, whether or not Sharpe ratios are undefined (stated
\* for the tables in which some volatility is a number, so that a minimum exists).
C6_MinVolFirstMin ==
    (SelectorRan /\ \E p \in 1..Len(results_frame.rows) :
                        ~IsNaN(results_frame.rows[p].stdev)) =>
        LET rows == results_frame.rows
            m == min_vol_port.idx + 1
        IN  /\ m \in 1..Len(rows)
            /\ min_vol_port.row = rows[m]
            /\ \A q \in 1..Len(rows) :
                  IsNaN(rows[q].stdev) \/ ~FLess(rows[q].stdev, rows[m].stdev)
            /\ \A q \in 1..Len(rows) :
                  q < m => IsNaN(rows[q].stdev) \/ FLess(rows[m].stdev, rows[q].stdev)

\* C7: on an empty table, or one whose samples all have an undefined Sharpe
\* ratio, the selector fails and returns no sample.
C7_FailsOnEmptyOrAllUndefined ==
    (SelectorRan /\ \A p \in 1..Len(results_frame.rows) :
                        Undefined(results_frame.rows[p])) =>
        /\ pc = "failed"
        /\ max_sharpe_port = NoPort
        /\ min_vol_port = NoPort

\* C8: two successive calls of simulate_portfolios in one seeded run return
\* the same table.
C8_SuccessiveCallsSameTable ==
    Len(tables) = 2 => tables[1] = tables[2]

\* C9: the generator state used for draw i depends on the seed and on i only:
\* it is the same in every simulation of the run.
C9_DrawStateBySeedAndIndex ==
    \A a, b \in 1..Len(states) :
        \A p \in 1..Len(states[a]) :
            p <= Len(states[b]) => states[a][p] = states[b][p]

\* C10: with a price matrix narrower than the requested symbols (some symbols
\* retained, some dropped) the run meets no shape error, and the frame's weight
\* columns are the retained symbols.
C10_NarrowerMatrixTolerated ==
    (1 <= Len(data) /\ Len(data) < Len(selected_tickers)) =>
        /\ error \notin ShapeErrors
        /\ results_frame # NoFrame =>
              results_frame.columns = <<"ret", "stdev", "sharpe">> \o data

\* the return estimator has handed its mean vector and covariance matrix on
PassedOn == pc \in {"simulate", "loop", "returned", "identify", "done"}

\* a mean vector and a covariance matrix with every entry a number
Defined(mean, cov) ==
    /\ \A a \in 1..Len(mean) : IsNum(mean[a])
    /\ \A a \in 1..Len(cov) : \A b \in 1..Len(cov[a]) : IsNum(cov[a][b])

\* C11: the return estimator hands nothing on to the simulator when the return
\* matrix holds fewer than 2 observations or no asset is retained (it fails
\* instead); a mean vector and covariance matrix handed on are defined.
C11_InsufficientDataRejected ==
    PassedOn =>
        /\ observations >= 2
        /\ Len(data) >= 1
        /\ Defined(mean_daily_returns, cov_matrix)


SampleErrors == {"ValueError: Cannot take a larger sample than population"}

\* C12: for a target count N within the universe size the ticker selection is
\* exactly N pairwise-distinct members of the universe; for N beyond it the
\* selection fails with an explicit error and no symbol is selected.
C12_SelectionDistinctOrFails ==
    /\ pc \in {"fetch", "estimate", "simulate"} =>
          /\ num_stocks <= Cardinality(Universe)
          /\ Len(selected_tickers) = num_stocks
    /\ \A a, b \in 1..Len(selected_tickers) :
          /\ selected_tickers[a] \in Universe
          /\ a # b => selected_tickers[a] # selected_tickers[b]
    /\ pc # "select" =>
          (num_stocks > Cardinality(Universe)
              <=> (pc = "failed" /\ error \in SampleErrors))
    /\ error \in SampleErrors => selected_tickers = <<>>
    /\ (pc # "select" /\ error \notin SampleErrors) => selected_tickers # <<>>

\* the whole universe has been asked for and selected
C12_Witness ==
    /\ pc = "fetch"
    /\ num_stocks = Cardinality(Universe)
    /\ Len(selected_tickers) = Cardinality(Universe)
    /\ selected_tickers[1] # selected_tickers[2]


\* the simulator is running: from its entry to its return
InSimulator == pc \in {"simulate", "loop"}

\* C13: a step of the simulator leaves the mean vector, the covariance matrix
\* and the return matrix unchanged, and modifies no state that the ticker
\* selector or a later simulator call reads (the generator, the selection).
C13_SimulatorChangesOnlyItsTable ==
    [][InSimulator =>
          UNCHANGED <<mean_daily_returns, cov_matrix, data, nan_columns,
                      observations, selected_tickers, rng>>]_vars


\* the selector's two outputs are both the first row of the frame
BothAreFirstRow ==
    /\ pc = "done"
    /\ max_sharpe_port = [idx |-> 0, row |-> results_frame.rows[1]]
    /\ min_vol_port = [idx |-> 0, row |-> results_frame.rows[1]]

Scored == {processed[p] : p \in 1..Len(processed)}

\* a statement that holds a fiscal year and every row the Z-Score reads
HasEveryAltmanRow(st) ==
    /\ st.years >= 1
    /\ \/ {"Total Current Assets", "Total Current Liabilities"} \subseteq st.rows
       \/ {"Current Assets", "Current Liabilities"} \subseteq st.rows
    /\ {"Total Assets", "Retained Earnings", "EBIT", "marketCap",
        "Total Liabilities Net Minority Interest", "Total Revenue"} \subseteq st.rows

\* C16: a ticker whose fetched statements hold every required row is recorded
\* by the Altman loop in results, with the Z-Score
\* 1.2*X1 + 1.4*X2 + 3.3*X3 + 0.6*X4 + 1.0*X5, and not in errors.
C16_CompleteTickerGetsZScore ==
    program = "Altman_Zscore" =>
        \A t \in Scored :
            HasEveryAltmanRow(market[t]) =>
                /\ t \in DOMAIN results
                /\ results[t] = ZScore(market[t])
                /\ t \notin DOMAIN errors

\* C17: in both scoring loops no failure stops the loop: the tickers entered
\* so far are the list's first ones in list order, each once, and each is a key
\* of exactly one of results and errors; when the loop has ended, that is the
\* whole list.
C17_LoopProcessesEveryTickerOnce ==
    /\ pc \in {"score", "scored"}
    /\ error = "none"
    /\ processed = SubSeq(tickers, 1, position - 1)
    /\ DOMAIN results \cup DOMAIN errors = Scored
    /\ DOMAIN results \cap DOMAIN errors = {}
    /\ pc = "scored" => processed = tickers

\* a Piotroski loop over two tickers has ended, one scored and one failed
C17_Witness ==
    /\ program = "Piotroski_Fscore"
    /\ pc = "scored"
    /\ Len(tickers) = 2
    /\ processed = tickers
    /\ tickers[1] \in DOMAIN errors
    /\ tickers[2] \in DOMAIN results


====
